---- MODULE Spec2Model ----
(***************************************************************************)
(* Model of karennik98/PPTFromVideo.                                       *)
(*                                                                         *)
(*   src/main.py     YouTubeScreenshots: process() downloads a video and   *)
(*                   extract_frames() scans it frame by frame, capturing   *)
(*                   on a scene change or at a fixed frame interval.       *)
(*   src/at_time.py  YouTubeTimestampScreenshot: capture_timestamps()      *)
(*                   downloads a video and get_screenshot() seeks to each  *)
(*                   requested (minutes, seconds) and captures that frame. *)
(*                                                                         *)
(* A run is one call of process() or of capture_timestamps().  The video's *)
(* properties, the parameters and the timestamp list are inputs fixed by   *)
(* Init; the image of each frame and the outcome of every download, open,  *)
(* read, conversion and write are chosen by the environment when the step  *)
(* is taken.  log is a history variable: one record per frame read (scene  *)
(* mode) or per get_screenshot call (timestamp mode).                      *)
(***************************************************************************)
EXTENDS Integers, Sequences, FiniteSets

VARIABLES
    mode,               \* "scene": process();  "timestamps": capture_timestamps()
    video,              \* the video file: [fps, total_frames, frames]; frames[i] is
                        \* the set of images its i-th frame may decode to
    interval_seconds,   \* extract_frames parameter
    scene_threshold,    \* extract_frames parameter
    timestamps,         \* capture_timestamps parameter: sequence of <<minutes, seconds>>
    pc,                 \* position in the run
    temp_video,         \* TRUE while temp_video.mp4 exists in the output directory
    handles,            \* cv2.VideoCapture handles opened and not yet released
    files,              \* paths passed to a successful cv2.imwrite, in order
    prev_frame,         \* extract_frames local (None or a grayscale frame)
    frame_count,        \* extract_frames local: the cursor
    last_captured,      \* extract_frames local
    screenshots_taken,  \* extract_frames local
    pos,                \* frames consumed from the capture by cap.read()
    idx,                \* capture_timestamps: index of the next timestamp
    successful,         \* capture_timestamps local
    log,                \* history of the run
    faults,             \* failures injected by the environment so far
    result,             \* the value the run returned
    previous            \* history and files of an earlier run over the same video, if any

inputs   == <<mode, video, interval_seconds, scene_threshold, timestamps>>
scanVars == <<prev_frame, frame_count, last_captured, screenshots_taken, pos>>
tsVars   == <<idx, successful>>
vars     == <<mode, video, interval_seconds, scene_threshold, timestamps, pc,
              temp_video, handles, files, prev_frame, frame_count, last_captured,
              screenshots_taken, pos, idx, successful, log, faults, result,
              previous>>

(***************************************************************************)
(* Bounds of the model.                                                    *)
(***************************************************************************)
MaxFrames     == 8      \* longest enumerated stream
MaxFaults     == 1      \* failures the environment injects in one run
MaxTimestamps == 2      \* longest enumerated timestamp list

(***************************************************************************)
(* Program constants.                                                      *)
(***************************************************************************)
CooldownSeconds == 5    \* "fps * 5" in the scene-change test

None == <<>>            \* Python's None (no grayscale frame is empty)
NoResult == "none"      \* the run has not returned
NoRun == <<>>           \* no earlier run (an earlier run leaves <<log, files>>)

(***************************************************************************)
(* Frames.  A frame is a sequence of BGR pixels; its grayscale projection  *)
(* is the sequence of their luminances, as cv2.cvtColor computes it for    *)
(* 8-bit images: (1868*B + 9617*G + 4899*R + 8192) >> 14.                  *)
(***************************************************************************)
BlackPx == <<0, 0, 0>>
WhitePx == <<255, 255, 255>>
BluePx  == <<255, 0, 0>>

DarkFrame  == <<BlackPx, BlackPx>>
LightFrame == <<WhitePx, WhitePx>>
TintFrame  == <<BluePx, BlackPx>>

Luminance(px) == (1868 * px[1] + 9617 * px[2] + 4899 * px[3] + 8192) \div 16384

cvtColor(frame) == [p \in DOMAIN frame |-> Luminance(frame[p])]

Abs(x) == IF x < 0 THEN -x ELSE x

absdiff(a, b) == [p \in DOMAIN a |-> Abs(a[p] - b[p])]

RECURSIVE SumSeq(_)
SumSeq(s) == IF s = <<>> THEN 0 ELSE Head(s) + SumSeq(Tail(s))

\* np.mean(diff) > threshold, for an integer threshold, without fractions
MeanExceeds(diff, threshold) == SumSeq(diff) > threshold * Len(diff)

(***************************************************************************)
(* File names.  Python's f"{n:02d}" / f"{n:03d}": the decimal digits of n, *)
(* left-padded with zeros to the width (never truncated).                  *)
(***************************************************************************)
DigitChar == <<"0", "1", "2", "3", "4", "5", "6", "7", "8", "9">>

RECURSIVE Digits(_)
Digits(n) == IF n < 10 THEN <<DigitChar[n + 1]>>
                       ELSE Digits(n \div 10) \o <<DigitChar[(n % 10) + 1]>>

Pad(n, width) ==
    LET d == Digits(n)
    IN  IF Len(d) >= width THEN d ELSE [i \in 1..(width - Len(d)) |-> "0"] \o d

\* main.py: seconds = int(frame_count / fps); "HH-MM-SS"
TimestampText(fc, fps) ==
    LET seconds == fc \div fps
        hours   == seconds \div 3600
        minutes == (seconds % 3600) \div 60
        secs    == seconds % 60
    IN  Pad(hours, 2) \o <<"-">> \o Pad(minutes, 2) \o <<"-">> \o Pad(secs, 2)

\* a name made of the timestamp alone
FramePathByTime(taken, fc, fps) ==
    <<"screenshot_">> \o TimestampText(fc, fps) \o <<".png">>
\* main.py: screenshot_{screenshots_taken:03d}_{timestamp}.png
FramePath(taken, fc, fps) ==
    <<"screenshot_">> \o Pad(taken, 3) \o <<"_">> \o TimestampText(fc, fps) \o <<".png">>

\* a name that leaves the seconds out
TimestampPathMinutesOnly(minutes, seconds) ==
    <<"screenshot_">> \o Pad(minutes, 2) \o <<".png">>
\* at_time.py: screenshot_{minutes:02d}-{seconds:02d}.png
TimestampPath(minutes, seconds) ==
    <<"screenshot_">> \o Pad(minutes, 2) \o <<"-">> \o Pad(seconds, 2) \o <<".png">>

(***************************************************************************)
(* The decision rule of extract_frames.                                    *)
(***************************************************************************)
\* a sentinel of 0: as if frame 0 had been captured
SentinelZero(interval, fps) == 0

\* last_captured = -interval_seconds * fps
Sentinel(interval, fps) == (-interval) * fps

\* a comparison that needs some pixel to differ, whatever the threshold
SceneChangeOfDifferent(gray, prev, threshold) ==
    /\ gray # prev
    /\ MeanExceeds(absdiff(gray, prev), threshold)
\* mean_diff > scene_threshold
SceneChange(gray, prev, threshold) == MeanExceeds(absdiff(gray, prev), threshold)

\* a cooldown that is one frame short: >= in place of >
CooldownElapsedAtLeast(fc, lc, fps) == (fc - lc) >= fps * CooldownSeconds

\* (frame_count - last_captured) > fps * 5
CooldownElapsed(fc, lc, fps) == (fc - lc) > fps * CooldownSeconds

\* an interval counted in frames: fps forgotten
IntervalDueInFrames(fc, interval, fps) == fc % interval = 0

\* frame_count % (interval_seconds * fps) == 0
IntervalDue(fc, interval, fps) == fc % (interval * fps) = 0

\* the two tests in the other order: the interval test first
DecideIntervalFirst(prev, gray, fc, lc, fps, interval, threshold) ==
    IF prev = None THEN "none"
    ELSE IF IntervalDue(fc, interval, fps) THEN "interval"
    ELSE IF SceneChange(gray, prev, threshold) /\ CooldownElapsed(fc, lc, fps)
         THEN "scene"
    ELSE "none"

\* an interval branch that waits for the cooldown as the scene branch does
DecideIntervalCooldown(prev, gray, fc, lc, fps, interval, threshold) ==
    IF prev = None THEN "none"
    ELSE IF SceneChange(gray, prev, threshold) /\ CooldownElapsed(fc, lc, fps)
         THEN "scene"
    ELSE IF IntervalDue(fc, interval, fps) /\ CooldownElapsed(fc, lc, fps)
         THEN "interval"
    ELSE "none"

\* the interval test made on the first frame too
DecideNoSeed(prev, gray, fc, lc, fps, interval, threshold) ==
    IF prev # None /\ SceneChange(gray, prev, threshold) /\ CooldownElapsed(fc, lc, fps)
         THEN "scene"
    ELSE IF IntervalDue(fc, interval, fps) THEN "interval"
    ELSE "none"
\* should_capture and the branch that set it: "scene", "interval" or "none"
Decide(prev, gray, fc, lc, fps, interval, threshold) ==
    IF prev = None THEN "none"
    ELSE IF SceneChange(gray, prev, threshold) /\ CooldownElapsed(fc, lc, fps)
         THEN "scene"
    ELSE IF IntervalDue(fc, interval, fps) THEN "interval"
    ELSE "none"

\* a count of attempts: incremented whatever imwrite returned
CountEveryAttempt(taken, success) == taken + 1

\* screenshots_taken after cv2.imwrite returned success or not
CountAfterWrite(taken, success) == IF success THEN taken + 1 ELSE taken

\* last_captured = frame_count outside the if: updated at every frame
LastCapturedEveryFrame(lc, fc, should_capture) == fc
\* last_captured after a frame on which should_capture was decided
LastCapturedAfter(lc, fc, should_capture) == IF should_capture THEN fc ELSE lc

(***************************************************************************)
(* Inputs.                                                                 *)
(***************************************************************************)
\* Images of the enumerated streams.  Dark and Tint differ by a mean of
\* 14.5: a change for thresholds -1 and 0, none for threshold 30.
FrameValues     == {DarkFrame, TintFrame}
FpsValues       == {0, 1, 2}
IntervalValues  == {1, 7}
ThresholdValues == {-1, 0, 30}

\* A stream of n frames, each of which may show any of the images
AnyStream(n) == [i \in 1..n |-> FrameValues]

SceneVideos == {[fps |-> f, total_frames |-> n, frames |-> AnyStream(n)] :
                    f \in FpsValues, n \in 0..MaxFrames}

\* State at the call of process() / capture_timestamps(), whatever the inputs
Fresh ==
    /\ pc = "start"
    /\ temp_video = FALSE
    /\ handles = 0
    /\ files = <<>>
    /\ prev_frame = None
    /\ frame_count = 0
    /\ last_captured = 0
    /\ screenshots_taken = 0
    /\ pos = 0
    /\ idx = 1
    /\ successful = 0
    /\ log = <<>>
    /\ faults = 0
    /\ result = NoResult
    /\ previous = NoRun

\* The synthetic video of the scene-driven example: 100 frames at 10 fps,
\* frames 0-49 of gray value 0 and frames 50-99 of gray value 255
ExampleVideo ==
    [fps |-> 10, total_frames |-> 100,
     frames |-> [i \in 1..100 |-> IF i <= 50 THEN {DarkFrame} ELSE {LightFrame}]]

InitScene ==
    /\ mode = "scene"
    /\ video \in SceneVideos
    /\ interval_seconds \in IntervalValues
    /\ scene_threshold \in ThresholdValues
    /\ timestamps = <<>>
    /\ Fresh

\* process() on the example video, or on the same stream reporting 0 fps,
\* with the example's interval and threshold
InitExample ==
    /\ mode = "scene"
    /\ video \in {ExampleVideo, [ExampleVideo EXCEPT !.fps = 0]}
    /\ interval_seconds = 100
    /\ scene_threshold = 30
    /\ timestamps = <<>>
    /\ Fresh

(***************************************************************************)
(* src/main.py: process() and extract_frames().                            *)
(***************************************************************************)
\* process(): download_video() returned a path
DownloadVideo ==
    /\ mode = "scene" /\ pc = "start"
    /\ temp_video' = TRUE
    /\ pc' = "extract"
    /\ UNCHANGED <<inputs, previous, handles, files, scanVars, tsVars, log, faults, result>>

\* process(): download_video() returned None; process() returns False
DownloadFails ==
    /\ mode = "scene" /\ pc = "start"
    /\ pc' = "done"
    /\ result' = FALSE
    /\ UNCHANGED <<inputs, previous, temp_video, handles, files, scanVars, tsVars, log, faults>>

\* extract_frames(): cap.isOpened() is false; returns 0
OpenFails ==
    /\ mode = "scene" /\ pc = "extract"
    /\ temp_video
    /\ pc' = "cleanup"
    /\ UNCHANGED <<inputs, previous, temp_video, handles, files, scanVars, tsVars, log, faults, result>>

\* extract_frames(): the capture opened
OpenVideo ==
    /\ mode = "scene" /\ pc = "extract"
    /\ temp_video
    /\ handles' = handles + 1
    /\ pc' = "properties"
    /\ UNCHANGED <<inputs, previous, temp_video, files, scanVars, tsVars, log, faults, result>>

\* extract_frames(): total_frames / fps with fps = 0 raises ZeroDivisionError,
\* which neither extract_frames nor process() catches
PropertiesRaise ==
    /\ mode = "scene" /\ pc = "properties"
    /\ video.fps = 0
    /\ pc' = "raised"
    /\ UNCHANGED <<inputs, previous, temp_video, handles, files, scanVars, tsVars, log, faults, result>>

\* extract_frames(): the properties are printed and the locals initialised
StartScan ==
    /\ mode = "scene" /\ pc = "properties"
    /\ video.fps # 0
    /\ prev_frame' = None
    /\ frame_count' = 0
    /\ last_captured' = Sentinel(interval_seconds, video.fps)
    /\ screenshots_taken' = 0
    /\ pc' = "loop"
    /\ UNCHANGED <<inputs, previous, temp_video, handles, files, pos, tsVars, log, faults, result>>

\* the loop's exit: cap.release(), the final verification, return
EndScan ==
    /\ handles' = handles - 1
    /\ pc' = "cleanup"

\* cap.read() returns ret = False at the end of the stream: break
ReadEnd ==
    /\ mode = "scene" /\ pc = "loop"
    /\ pos = Len(video.frames)
    /\ EndScan
    /\ UNCHANGED <<inputs, previous, temp_video, files, scanVars, tsVars, log, faults, result>>

\* cap.read() returns ret = False before the end of the stream (a frame
\* that cannot be read): the same break
ReadFails ==
    /\ mode = "scene" /\ pc = "loop"
    /\ pos < Len(video.frames)
    /\ EndScan
    /\ log' = Append(log, [pos |-> pos, cursor |-> frame_count, event |-> "read_failed",
                           write |-> "none", changed |-> FALSE])
    /\ UNCHANGED <<inputs, previous, temp_video, files, scanVars, tsVars, faults, result>>

\* a conversion failure that ends the scan: break in place of continue
ConvertFailsBreaks ==
    /\ mode = "scene" /\ pc = "loop"
    /\ pos < Len(video.frames)
    /\ faults < MaxFaults
    /\ faults' = faults + 1
    /\ pos' = pos + 1
    /\ EndScan
    /\ log' = Append(log, [pos |-> pos, cursor |-> frame_count, event |-> "convert_failed",
                           write |-> "none", changed |-> FALSE])
    /\ UNCHANGED <<inputs, previous, temp_video, files, prev_frame, frame_count,
                   last_captured, screenshots_taken, tsVars, result>>

\* cv2.cvtColor raises: continue, before any of the loop's updates
ConvertFails ==
    /\ mode = "scene" /\ pc = "loop"
    /\ pos < Len(video.frames)
    /\ faults < MaxFaults
    /\ faults' = faults + 1
    /\ pos' = pos + 1
    /\ log' = Append(log, [pos |-> pos, cursor |-> frame_count, event |-> "convert_failed",
                           write |-> "none", changed |-> FALSE])
    /\ UNCHANGED <<inputs, previous, pc, temp_video, handles, files, prev_frame, frame_count,
                   last_captured, screenshots_taken, tsVars, result>>

\* the images cap.read() may return next (none at the end of the stream)
NextImages == IF pos < Len(video.frames) THEN video.frames[pos + 1] ELSE {}

\* One iteration of the loop on a frame that was read and converted.
\* write: "none" (no capture), "ok", "false" (imwrite returned False) or
\* "error" (imwrite raised).  The log notes the branch taken and whether
\* the difference to the previous frame exceeded the threshold.
ProcessFrame(frame, write) ==
    LET gray   == cvtColor(frame)
        branch == Decide(prev_frame, gray, frame_count, last_captured,
                         video.fps, interval_seconds, scene_threshold)
        should_capture == branch # "none"
    IN  /\ mode = "scene" /\ pc = "loop"
        /\ should_capture <=> write # "none"
        /\ files' = IF write = "ok"
                    THEN Append(files, FramePath(screenshots_taken, frame_count, video.fps))
                    ELSE files
        /\ screenshots_taken' = IF should_capture
                                THEN CountAfterWrite(screenshots_taken, write = "ok")
                                ELSE screenshots_taken
        /\ last_captured' = LastCapturedAfter(last_captured, frame_count, should_capture)
        /\ prev_frame' = gray
        /\ frame_count' = frame_count + 1
        /\ pos' = pos + 1
        /\ log' = Append(log, [pos |-> pos, cursor |-> frame_count, event |-> branch,
                               write |-> write,
                               changed |-> /\ prev_frame # None
                                           /\ SceneChange(gray, prev_frame, scene_threshold)])
        /\ faults' = IF write \in {"false", "error"} THEN faults + 1 ELSE faults
        /\ UNCHANGED <<inputs, previous, pc, temp_video, handles, tsVars, result>>

\* should_capture stayed False
SkipFrame == \E frame \in NextImages : ProcessFrame(frame, "none")

\* the frame was saved
CaptureFrame == \E frame \in NextImages : ProcessFrame(frame, "ok")

\* cv2.imwrite returned False
CaptureWriteFalse ==
    /\ faults < MaxFaults
    /\ \E frame \in NextImages : ProcessFrame(frame, "false")

\* cv2.imwrite raised; the except clause prints it
CaptureWriteRaises ==
    /\ faults < MaxFaults
    /\ \E frame \in NextImages : ProcessFrame(frame, "error")

\* a process() that returns num_screenshots >= 0
CleanupNonNegative ==
    /\ mode = "scene" /\ pc = "cleanup"
    /\ temp_video' = FALSE
    /\ result' = (screenshots_taken >= 0)
    /\ pc' = "done"
    /\ UNCHANGED <<inputs, previous, handles, files, scanVars, tsVars, log, faults>>
\* process(): the temp video is removed; returns num_screenshots > 0
Cleanup ==
    /\ mode = "scene" /\ pc = "cleanup"
    /\ temp_video' = FALSE
    /\ result' = (screenshots_taken > 0)
    /\ pc' = "done"
    /\ UNCHANGED <<inputs, previous, handles, files, scanVars, tsVars, log, faults>>

NextScene ==
    \/ DownloadVideo
    \/ DownloadFails
    \/ OpenFails
    \/ OpenVideo
    \/ PropertiesRaise
    \/ StartScan
    \/ ReadEnd
    \/ ReadFails
    \/ ConvertFails
    \/ SkipFrame
    \/ CaptureFrame
    \/ CaptureWriteFalse
    \/ CaptureWriteRaises
    \/ Cleanup

SpecScene == InitScene /\ [][NextScene]_vars

SpecExample == InitExample /\ [][NextScene]_vars

(***************************************************************************)
(* src/at_time.py: capture_timestamps() and get_screenshot().              *)
(***************************************************************************)
TimestampValues == {<<0, 0>>, <<0, 1>>, <<0, 2>>, <<0, 9>>, <<0, 10>>, <<1, 0>>, <<999, 0>>}

TimestampLists ==
    UNION {[1..n -> TimestampValues] : n \in 0..MaxTimestamps}
    \cup {<< <<1, 0>>, <<999, 0>>, <<2, 0>> >>, << <<0, 1>>, <<999, 0>>, <<0, 2>> >>}

\* a 10-second video at 30 fps, a 5-frame video at 2 fps, a video reporting 0 fps
TimestampVideos == {[fps |-> 30, total_frames |-> 300, frames |-> <<>>],
                    [fps |-> 2,  total_frames |-> 5,   frames |-> <<>>],
                    [fps |-> 0,  total_frames |-> 5,   frames |-> <<>>]}

InitTimestamps ==
    /\ mode = "timestamps"
    /\ video \in TimestampVideos
    /\ interval_seconds = 0
    /\ scene_threshold = 0
    /\ timestamps \in TimestampLists
    /\ Fresh

\* minutes taken for seconds: the * 60 forgotten
FrameNumberNoMinutes(minutes, seconds, fps) == (minutes + seconds) * fps

\* frame_number = int((minutes * 60 + seconds) * fps)
FrameNumber(minutes, seconds, fps) == (minutes * 60 + seconds) * fps

\* an off-by-one bound: > in place of >=
BeyondDurationStrict(frame_number, total_frames) == frame_number > total_frames

\* frame_number >= total_frames
BeyondDuration(frame_number, total_frames) == frame_number >= total_frames

\* a batch that stops at the first failure
AfterScreenshotAbort(i, returned) == IF returned THEN i + 1 ELSE Len(timestamps) + 1

\* the for loop's step after get_screenshot returned: the next timestamp
AfterScreenshot(i, returned) == i + 1

\* capture_timestamps(): download_video() returned a path
TsDownloadVideo ==
    /\ mode = "timestamps" /\ pc = "start"
    /\ temp_video' = TRUE
    /\ successful' = 0
    /\ idx' = 1
    /\ pc' = "batch"
    /\ UNCHANGED <<inputs, previous, handles, files, scanVars, log, faults, result>>

\* capture_timestamps(): download_video() returned None; returns False
TsDownloadFails ==
    /\ mode = "timestamps" /\ pc = "start"
    /\ pc' = "done"
    /\ result' = FALSE
    /\ UNCHANGED <<inputs, previous, temp_video, handles, files, scanVars, tsVars, log, faults>>

\* One iteration of the for loop: get_screenshot(video_path, minutes, seconds)
\* returns, with the given outcome, and successful is updated.
GetScreenshot(outcome) ==
    LET minutes      == timestamps[idx][1]
        seconds      == timestamps[idx][2]
        frame_number == FrameNumber(minutes, seconds, video.fps)
        beyond       == BeyondDuration(frame_number, video.total_frames)
        opened       == outcome # "open_failed"
        sought       == opened /\ ~beyond
        success      == outcome = "ok"
    IN  /\ mode = "timestamps" /\ pc = "batch"
        /\ idx <= Len(timestamps)
        /\ temp_video
        /\ opened => video.fps # 0
        /\ (opened /\ beyond) <=> outcome = "beyond"
        /\ files' = IF success THEN Append(files, TimestampPath(minutes, seconds))
                               ELSE files
        /\ successful' = IF success THEN successful + 1 ELSE successful
        /\ idx' = AfterScreenshot(idx, success)
        /\ log' = Append(log, [ts |-> timestamps[idx],
                               frame_number |-> IF opened THEN frame_number ELSE -1,
                               seeks |-> IF sought THEN <<frame_number>> ELSE <<>>,
                               reads |-> IF sought THEN 1 ELSE 0,
                               writes |-> IF outcome \in {"ok", "write_false", "write_error"}
                                          THEN 1 ELSE 0,
                               outcome |-> outcome])
        /\ UNCHANGED <<inputs, previous, pc, temp_video, handles, scanVars, faults, result>>

\* cap.isOpened() is false: returns False
TsOpenFails == pc = "batch" /\ GetScreenshot("open_failed")

\* the timestamp is beyond the video: cap.release(), returns False
TsBeyondDuration == pc = "batch" /\ GetScreenshot("beyond")

\* cap.read() returned ret = False: cap.release(), returns False
TsReadFails == pc = "batch" /\ GetScreenshot("read_failed")

\* cv2.imwrite returned False: cap.release(), returns False
TsWriteFalse == pc = "batch" /\ GetScreenshot("write_false")

\* cv2.imwrite raised: success = False, cap.release(), returns False
TsWriteRaises == pc = "batch" /\ GetScreenshot("write_error")

\* the frame was saved: cap.release(), returns True
TsCapture == pc = "batch" /\ GetScreenshot("ok")

\* get_screenshot(): duration = total_frames / fps with fps = 0 raises
\* ZeroDivisionError after the capture was opened; nothing catches it
TsPropertiesRaise ==
    /\ mode = "timestamps" /\ pc = "batch"
    /\ idx <= Len(timestamps)
    /\ temp_video
    /\ video.fps = 0
    /\ handles' = handles + 1
    /\ pc' = "raised"
    /\ UNCHANGED <<inputs, previous, temp_video, files, scanVars, tsVars, log, faults, result>>

\* capture_timestamps(): the list is exhausted; the temp video is removed;
\* returns successful > 0
TsFinish ==
    /\ mode = "timestamps" /\ pc = "batch"
    /\ idx > Len(timestamps)
    /\ temp_video' = FALSE
    /\ result' = (successful > 0)
    /\ pc' = "done"
    /\ UNCHANGED <<inputs, previous, handles, files, scanVars, tsVars, log, faults>>

NextTimestamps ==
    \/ TsDownloadVideo
    \/ TsDownloadFails
    \/ TsOpenFails
    \/ TsBeyondDuration
    \/ TsReadFails
    \/ TsWriteFalse
    \/ TsWriteRaises
    \/ TsCapture
    \/ TsPropertiesRaise
    \/ TsFinish

SpecTimestamps == InitTimestamps /\ [][NextTimestamps]_vars

(***************************************************************************)
(* Either program.                                                         *)
(***************************************************************************)
Init == InitScene \/ InitExample \/ InitTimestamps

Next == NextScene \/ NextTimestamps

Spec == Init /\ [][Next]_vars

(***************************************************************************)
(* The program run a second time on the same video with the same           *)
(* parameters: the first run has returned, its history and the paths it    *)
(* wrote are kept in previous, and process() is called again.  The streams are fixed frame   *)
(* by frame, so that both runs decode the same images.                     *)
(***************************************************************************)
TwiceFrames == MaxFrames \div 2

FixedStreams(n) == [1..n -> {{f} : f \in FrameValues}]

TwiceVideos ==
    UNION {{[fps |-> f, total_frames |-> n, frames |-> s] :
                f \in FpsValues, s \in FixedStreams(n)} : n \in 0..TwiceFrames}

InitTwice ==
    /\ mode = "scene"
    /\ video \in TwiceVideos
    /\ interval_seconds \in IntervalValues
    /\ scene_threshold \in ThresholdValues
    /\ timestamps = <<>>
    /\ Fresh

\* __main__ run again: a new extractor, process() called on the same video
RunAgain ==
    /\ mode = "scene" /\ pc = "done"
    /\ previous = NoRun
    /\ previous' = <<log, files>>
    /\ pc' = "start"
    /\ files' = <<>>
    /\ prev_frame' = None
    /\ frame_count' = 0
    /\ last_captured' = 0
    /\ screenshots_taken' = 0
    /\ pos' = 0
    /\ log' = <<>>
    /\ faults' = 0
    /\ result' = NoResult
    /\ UNCHANGED <<inputs, temp_video, handles, tsVars>>

NextTwice == NextScene \/ RunAgain

SpecTwice == InitTwice /\ [][NextTwice]_vars

(***************************************************************************)
(* Reading the history.                                                    *)
(***************************************************************************)
Evaluated == {"none", "scene", "interval"}   \* the decision rule ran on the frame
Attempts  == {"scene", "interval"}           \* it chose to capture

SceneRun == mode = "scene"

\* the scan is over (or never began)
ScanOver == pc \in {"cleanup", "done"}

\* log indices of the frames on which a capture was attempted / written
AttemptAt == {i \in DOMAIN log : log[i].event \in Attempts}
WrittenAt == {i \in DOMAIN log : log[i].write = "ok"}

CeilDiv(a, b) == (a + b - 1) \div b

\* Every frame of the stream was read, converted and evaluated, none showed
\* a scene change, and every write succeeded (fps >= 1, interval_seconds >= 1)
QuietScan ==
    /\ SceneRun /\ ScanOver
    /\ video.fps >= 1 /\ interval_seconds >= 1
    /\ Len(log) = video.total_frames
    /\ \A i \in DOMAIN log :
          /\ log[i].event \in Evaluated
          /\ ~log[i].changed
          /\ log[i].write \in {"none", "ok"}

(***************************************************************************)
(* C1.  Stated: over a stream of N frames without scene change, with       *)
(* interval_seconds = k, fps = f and every write succeeding, the scan      *)
(* makes ceil(N / (k*f)) captures, at frame indices 0, k*f, 2*k*f, ...     *)
(* below N.                                                                *)
(***************************************************************************)
C1_CapturesIncludeFrameZero ==
    QuietScan =>
        LET step == interval_seconds * video.fps
            n    == video.total_frames
        IN  /\ screenshots_taken = CeilDiv(n, step)
            /\ {log[i].cursor : i \in AttemptAt} = {c \in 0..(n - 1) : c % step = 0}

(***************************************************************************)
(* C1, amended.  Frame 0 only seeds the history, so over such a stream     *)
(* the captures are at the frame indices k*f, 2*k*f, ... below N and at    *)
(* no other, one file each: ceil(N / (k*f)) - 1 captures when N >= 1,      *)
(* none when N = 0.                                                        *)
(***************************************************************************)
C1_IntervalCaptures ==
    QuietScan =>
        LET step == interval_seconds * video.fps
            n    == video.total_frames
        IN  /\ screenshots_taken = IF n = 0 THEN 0 ELSE CeilDiv(n, step) - 1
            /\ {log[i].cursor : i \in AttemptAt} = {c \in 1..(n - 1) : c % step = 0}
            /\ Cardinality(AttemptAt) = screenshots_taken
            /\ Len(files) = screenshots_taken
            /\ \A i \in AttemptAt : log[i].event = "interval" /\ log[i].pos = log[i].cursor

\* a quiet scan at 2 fps that ended with three interval captures
C1_Witness ==
    /\ QuietScan /\ pc = "done"
    /\ video.fps = 2 /\ interval_seconds = 1
    /\ screenshots_taken = 3

(***************************************************************************)
(* C2.  Cooldown: every capture of the scene-change branch, at cursor i,   *)
(* has i - j > fps * 5 for the cursor j of every earlier capture of        *)
(* either branch (so also for the most recent one, and for every earlier   *)
(* scene-change capture).                                                  *)
(***************************************************************************)
C2_Cooldown ==
    SceneRun =>
        \A i \in AttemptAt :
            log[i].event = "scene" =>
                \A j \in AttemptAt :
                    j < i => log[i].cursor - log[j].cursor > video.fps * 5

\* a scene-change capture that follows an earlier capture
C2_Witness ==
    /\ SceneRun
    /\ \E i, j \in AttemptAt : j < i /\ log[i].event = "scene" /\ log[j].event = "scene"

(***************************************************************************)
(* Reading the history of a timestamp batch.                               *)
(***************************************************************************)
BatchRun == mode = "timestamps"

OkAt == {i \in DOMAIN log : log[i].outcome = "ok"}

IsOk(r) == r.outcome = "ok"

\* the frame indices captured, in order
CapturedFrames ==
    LET ok == SelectSeq(log, IsOk)
    IN  [i \in DOMAIN ok |-> ok[i].frame_number]

\* the batch returned, the video was opened for every timestamp and every
\* read and write succeeded
CleanBatch ==
    /\ BatchRun /\ pc = "done"
    /\ Len(log) = Len(timestamps)
    /\ \A i \in DOMAIN log : log[i].outcome \in {"ok", "beyond"}

TenSecondVideo == video.fps = 30 /\ video.total_frames = 300

(***************************************************************************)
(* C3.  Stated: capture_timestamps with [(1,0), (999,0), (2,0)] on a video *)
(* of 300 frames at 30 fps, every read and write succeeding, yields two    *)
(* captures, at frame indices 30 and 60, and one failure, for (999,0).     *)
(***************************************************************************)
C3_TwoCapturesFromMinutes ==
    (CleanBatch /\ TenSecondVideo /\ timestamps = << <<1, 0>>, <<999, 0>>, <<2, 0>> >>)
    => /\ successful = 2
       /\ CapturedFrames = <<30, 60>>
       /\ {log[i].ts : i \in DOMAIN log \ OkAt} = {<<999, 0>>}

(***************************************************************************)
(* C3, amended.  A timestamp is (minutes, seconds): on that video the list *)
(* [(1,0), (999,0), (2,0)] resolves to frames 1800, 1798200 and 3600, all  *)
(* beyond its 300 frames, so all three are attempted, all three fail and   *)
(* none is captured.  Two captures at frames 30 and 60 and one failure,    *)
(* for (999,0), is the outcome of [(0,1), (999,0), (0,2)].                 *)
(***************************************************************************)
C3_BatchExample ==
    /\ (CleanBatch /\ TenSecondVideo /\ timestamps = << <<1, 0>>, <<999, 0>>, <<2, 0>> >>)
       => /\ successful = 0
          /\ result = FALSE
          /\ [i \in DOMAIN log |-> log[i].frame_number] = <<1800, 1798200, 3600>>
          /\ \A i \in DOMAIN log : log[i].outcome = "beyond"
    /\ (CleanBatch /\ TenSecondVideo /\ timestamps = << <<0, 1>>, <<999, 0>>, <<0, 2>> >>)
       => /\ successful = 2
          /\ result = TRUE
          /\ CapturedFrames = <<30, 60>>
          /\ {log[i].ts : i \in DOMAIN log \ OkAt} = {<<999, 0>>}

\* the batch of the example has returned
C3_Witness ==
    /\ CleanBatch /\ TenSecondVideo
    /\ timestamps = << <<1, 0>>, <<999, 0>>, <<2, 0>> >>
    /\ Len(log) = 3

(***************************************************************************)
(* C4.  In capture_timestamps a timestamp that is beyond the stream, or    *)
(* whose open, read or write fails, fails only itself: the timestamps are  *)
(* attempted one by one in list order, a failure is followed by the next   *)
(* timestamp, the batch that returns has attempted all of them, and        *)
(* successful counts exactly the timestamps that were captured.  (A batch  *)
(* is cut short only by the division by a reported fps of 0, on a video    *)
(* of which no timestamp was resolved, read or written.)                   *)
(***************************************************************************)
C4_FailuresAreLocal ==
    BatchRun =>
        /\ Len(log) = idx - 1
        /\ \A i \in DOMAIN log : log[i].ts = timestamps[i]
        /\ successful = Cardinality(OkAt)
        /\ (pc = "done" /\ log # <<>>) => Len(log) = Len(timestamps)
        /\ pc = "raised" => /\ video.fps = 0
                             /\ \A i \in DOMAIN log : log[i].outcome = "open_failed"

\* a batch that returned after a failed timestamp followed by a captured one
C4_Witness ==
    /\ BatchRun /\ pc = "done"
    /\ \E i, j \in DOMAIN log :
          /\ i < j
          /\ log[i].outcome \in {"beyond", "read_failed", "write_false", "write_error"}
          /\ log[j].outcome = "ok"

(***************************************************************************)
(* C5.  get_screenshot, once the video is open, targets frame              *)
(* floor((minutes*60 + seconds) * fps); it fails without seek, read or     *)
(* write exactly when that index is >= total_frames, and otherwise seeks   *)
(* to exactly that index and reads one frame.                              *)
(***************************************************************************)
C5_Resolve ==
    BatchRun =>
        \A i \in DOMAIN log :
            log[i].outcome # "open_failed" =>
                LET n == (log[i].ts[1] * 60 + log[i].ts[2]) * video.fps
                IN  /\ log[i].frame_number = n
                    /\ IF n >= video.total_frames
                       THEN /\ log[i].outcome = "beyond"
                            /\ log[i].seeks = <<>>
                            /\ log[i].reads = 0
                            /\ log[i].writes = 0
                       ELSE /\ log[i].outcome # "beyond"
                            /\ log[i].seeks = <<n>>
                            /\ log[i].reads = 1

\* the last frame but 30 was sought and the first frame past the end refused
C5_Witness ==
    /\ BatchRun /\ TenSecondVideo
    /\ \E i, j \in DOMAIN log :
          /\ log[i].frame_number = 300 /\ log[i].outcome = "beyond"
          /\ log[j].frame_number = 270 /\ log[j].seeks = <<270>>

(***************************************************************************)
(* C6.  The scene-driven example: the 100-frame video at 10 fps whose      *)
(* frames 0-49 are gray 0 and frames 50-99 gray 255, scanned with          *)
(* scene_threshold = 30 and interval_seconds = 100, every frame read and   *)
(* converted and every write succeeding, yields exactly one capture, by    *)
(* the scene-change branch at frame 50: captured_count = 1.                *)
(***************************************************************************)
CleanScan ==
    /\ SceneRun /\ ScanOver
    /\ Len(log) = video.total_frames
    /\ \A i \in DOMAIN log : log[i].event \in Evaluated /\ log[i].write \in {"none", "ok"}

IsExample == video = ExampleVideo /\ interval_seconds = 100 /\ scene_threshold = 30

C6_Example ==
    (CleanScan /\ IsExample) =>
        /\ screenshots_taken = 1
        /\ Len(files) = 1
        /\ {<<log[i].pos, log[i].cursor, log[i].event>> : i \in AttemptAt}
               = {<<50, 50, "scene">>}
        /\ pc = "done" => result = TRUE

\* the example ran to its end
C6_Witness == CleanScan /\ IsExample /\ pc = "done"

(***************************************************************************)
(* C7.  Precedence, no double capture: at a frame where the difference     *)
(* exceeds the threshold with the cooldown elapsed and the cursor is a     *)
(* multiple of interval_seconds * fps, one capture is attempted, by the    *)
(* scene-change branch; no frame is processed twice and every frame        *)
(* yields at most one capture attempt and at most one file.                *)
(***************************************************************************)
\* last_captured when the frame of log[i] was evaluated, from the history
RECURSIVE LastAttemptUpTo(_)
LastAttemptUpTo(i) ==
    IF i = 0 THEN 0
    ELSE IF log[i].event \in Attempts THEN i
    ELSE LastAttemptUpTo(i - 1)

LastCapturedBefore(i) ==
    LET j == LastAttemptUpTo(i - 1)
    IN  IF j = 0 THEN -(interval_seconds * video.fps) ELSE log[j].cursor

BothConditions(i) ==
    /\ log[i].event \in Evaluated
    /\ log[i].changed
    /\ log[i].cursor - LastCapturedBefore(i) > video.fps * 5
    /\ log[i].cursor % (interval_seconds * video.fps) = 0

C7_OneCapture ==
    SceneRun =>
        /\ \A i, j \in DOMAIN log : log[i].pos = log[j].pos => i = j
        /\ Len(files) = Cardinality(WrittenAt)
        /\ WrittenAt \subseteq AttemptAt
        /\ \A i \in DOMAIN log :
              BothConditions(i) => log[i].event = "scene" /\ log[i].write # "none"

\* a frame at which both conditions held was captured, after an earlier capture
C7_Witness ==
    /\ SceneRun
    /\ \E i \in DOMAIN log :
          /\ BothConditions(i) /\ log[i].write = "ok"
          /\ \E j \in AttemptAt : j < i

(***************************************************************************)
(* C8.  Write failures are recoverable and uncounted: at every point of    *)
(* the scan screenshots_taken is the number of frames whose write          *)
(* succeeded so far; a failed write (False returned, or an error raised)   *)
(* leaves the loop running, and the scan ends only at the end of the       *)
(* stream or at a failed read.                                             *)
(***************************************************************************)
C8_WriteFailures ==
    SceneRun =>
        /\ screenshots_taken = Cardinality(WrittenAt)
        /\ (log # <<>> /\ log[Len(log)].write \in {"false", "error"}
                       /\ Len(log) < video.total_frames) => pc = "loop"
        /\ (ScanOver /\ log # <<>>) =>
              \/ log[Len(log)].event = "read_failed"
              \/ Len(log) = video.total_frames

\* a run that ended with a capture written after a failed write
C8_Witness ==
    /\ SceneRun /\ pc = "done"
    /\ \E i, j \in DOMAIN log :
          /\ i < j
          /\ log[i].write \in {"false", "error"}
          /\ log[j].write = "ok"

(***************************************************************************)
(* C9.  Stated: a frame that fails to decode mid-stream is skipped and     *)
(* the scan continues: when the read or the grayscale conversion of frame  *)
(* j < N-1 fails, the frames j+1 .. N-1 are still read and evaluated by    *)
(* the decision rule.                                                      *)
(***************************************************************************)
C9_DecodeFailureSkipped ==
    (SceneRun /\ ScanOver) =>
        \A j \in DOMAIN log :
            (log[j].event \in {"read_failed", "convert_failed"}
                /\ log[j].pos < video.total_frames - 1)
            => \A p \in (log[j].pos + 1)..(video.total_frames - 1) :
                   \E i \in DOMAIN log : log[i].pos = p /\ log[i].event \in Evaluated

(***************************************************************************)
(* C9, amended.  Only a failed grayscale conversion is skipped: the loop   *)
(* goes on with the next frame, and a scan without a failed read reads     *)
(* every frame of the stream, in order, each once.  A failed read ends     *)
(* the scan like the end of the stream: it is the last frame touched, no   *)
(* later frame is read, and the run completes with the captures made       *)
(* before it.                                                              *)
(***************************************************************************)
C9_ConvertSkippedReadEnds ==
    SceneRun =>
        /\ \A i \in DOMAIN log : log[i].pos = i - 1
        /\ \A i \in DOMAIN log :
              log[i].event = "read_failed" => i = Len(log) /\ ScanOver
        /\ (log # <<>> /\ log[Len(log)].event = "convert_failed"
                       /\ Len(log) < video.total_frames) => pc = "loop"
        /\ (ScanOver /\ log # <<>> /\ log[Len(log)].event # "read_failed")
              => Len(log) = video.total_frames
        /\ pc = "done" => result = (Cardinality(WrittenAt) > 0)

\* a run that read the whole stream and captured a frame after a failed conversion
C9_Witness ==
    /\ SceneRun /\ pc = "done"
    /\ Len(log) = video.total_frames
    /\ \E i, j \in DOMAIN log :
          /\ i < j
          /\ log[i].event = "convert_failed"
          /\ log[j].write = "ok"

(***************************************************************************)
(* C10.  No exception leaves a run: whatever the opened stream reports     *)
(* and whichever steps fail, process() and capture_timestamps() return a   *)
(* boolean and never end by a propagated exception.                        *)
(***************************************************************************)
C10_NoExceptionEscapes == pc # "raised"

(***************************************************************************)
(* C11.  Resource discipline: once the video was downloaded, when the run  *)
(* ends, on whatever path and whatever the stream reports, every capture   *)
(* handle that was opened has been released and the temp video has been    *)
(* deleted.                                                                *)
(***************************************************************************)
RunEnded == pc \in {"done", "raised"}

C11_ResourcesReleased == RunEnded => (handles = 0 /\ ~temp_video)

(***************************************************************************)
(* Names within one run.                                                   *)
(***************************************************************************)
FileSet == {files[i] : i \in DOMAIN files}

\* the capture count the run reports
ReportedCount == IF SceneRun THEN screenshots_taken ELSE successful

NoTwoWritesToOnePath == \A i, j \in DOMAIN files : files[i] = files[j] => i = j

DistinctTimestamps ==
    \A i, j \in DOMAIN timestamps : timestamps[i] = timestamps[j] => i = j

(***************************************************************************)
(* C12.  Stated: in either mode, for every stream, every pattern of write  *)
(* failures and every timestamp list, no two successful writes of one run  *)
(* go to the same path, so the number of distinct files written equals     *)
(* the reported capture count.                                             *)
(***************************************************************************)
C12_NeverSamePath ==
    /\ NoTwoWritesToOnePath
    /\ Cardinality(FileSet) = ReportedCount

(***************************************************************************)
(* C12, amended.  The scene mode never writes two files of one run to the  *)
(* same path, and the timestamp mode does not either when the timestamps   *)
(* of the list are pairwise distinct: then the number of distinct files    *)
(* equals the reported count.  A timestamp that appears twice in the list  *)
(* is written to the same path again and counted again, so the reported    *)
(* count can exceed the number of files; it is never below it.             *)
(***************************************************************************)
C12_DistinctPaths ==
    /\ Len(files) = ReportedCount
    /\ Cardinality(FileSet) <= ReportedCount
    /\ (SceneRun \/ DistinctTimestamps) =>
          /\ NoTwoWritesToOnePath
          /\ Cardinality(FileSet) = ReportedCount
    /\ BatchRun =>
          \A i, j \in OkAt :
              (log[i].ts # log[j].ts) =>
                  TimestampPath(log[i].ts[1], log[i].ts[2])
                      # TimestampPath(log[j].ts[1], log[j].ts[2])

\* two different timestamps of one list were both written
C12_Witness ==
    /\ BatchRun /\ pc = "done"
    /\ DistinctTimestamps
    /\ Len(files) = 2 /\ successful = 2
    /\ files[1] # files[2]

(***************************************************************************)
(* C13.  Overall success is captured_count > 0: a run that returns,        *)
(* returns true exactly when at least one frame (scene mode) or one        *)
(* timestamp (timestamp mode) was written to a file; and when the          *)
(* download fails the run returns false at once, having opened no          *)
(* capture, read no frame and written no file.                             *)
(***************************************************************************)
Persisted ==
    IF SceneRun THEN {i \in DOMAIN log : log[i].write = "ok"}
                ELSE {i \in DOMAIN log : log[i].outcome = "ok"}

SuccessIsSomeCapture ==
    pc = "done" =>
        /\ result \in BOOLEAN
        /\ result <=> (Persisted # {})
        /\ result <=> (files # <<>>)
        /\ result <=> (ReportedCount > 0)

AcquisitionFailureTouchesNothing ==
    (pc = "start" /\ pc' = "done") =>
        /\ result' = FALSE
        /\ handles' = 0 /\ handles = 0
        /\ pos' = 0 /\ log' = <<>> /\ files' = <<>>
        /\ ~temp_video'

C13_SuccessIsCount == []SuccessIsSomeCapture /\ [][AcquisitionFailureTouchesNothing]_vars

\* a scan that returned true after a failed and a successful write
C13_Witness ==
    /\ SceneRun /\ pc = "done" /\ result = TRUE
    /\ screenshots_taken = 1
    /\ \E i \in DOMAIN log : log[i].write \in {"false", "error"}

(***************************************************************************)
(* C14.  Stated: with scene_threshold <= 0, exactly 0 included, the        *)
(* scene-change branch captures every frame after the first at which the   *)
(* cooldown has elapsed (cursor - last_captured > fps*5), whatever the     *)
(* frame contents.                                                         *)
(***************************************************************************)
CooledDownAt(i) ==
    /\ log[i].event \in Evaluated
    /\ log[i].cursor >= 1
    /\ log[i].cursor - LastCapturedBefore(i) > video.fps * 5

C14_AlwaysSceneCapture ==
    (SceneRun /\ scene_threshold <= 0) =>
        \A i \in DOMAIN log : CooledDownAt(i) => log[i].event = "scene"

(***************************************************************************)
(* C14, amended.  With scene_threshold < 0 the scene-change branch         *)
(* captures every frame after the first at which the cooldown has          *)
(* elapsed, whatever the frame contents, identical consecutive frames      *)
(* included.  With scene_threshold = 0 it captures such a frame exactly    *)
(* when its grayscale differs from the previous frame's: the mean          *)
(* difference of identical frames is 0, which is not above 0.              *)
(***************************************************************************)
\* a step that evaluates a frame against a previous one, cooldown elapsed
CooledDownStep ==
    /\ SceneRun /\ pc = "loop"
    /\ frame_count' = frame_count + 1
    /\ prev_frame # None
    /\ frame_count - last_captured > video.fps * 5

DegenerateThresholdStep ==
    (CooledDownStep /\ scene_threshold <= 0) =>
        /\ log' # <<>>
        /\ (log'[Len(log')].event = "scene")
              <=> (scene_threshold < 0 \/ prev_frame' # prev_frame)
        /\ log'[Len(log')].event = "scene" => last_captured' = frame_count

C14_DegenerateThreshold == [][DegenerateThresholdStep]_vars

\* negative threshold: two scene captures, a cooldown apart, and no other
C14_Witness ==
    /\ SceneRun /\ scene_threshold < 0 /\ pc = "done"
    /\ \E i, j \in DOMAIN log :
          /\ i < j
          /\ log[i].event = "scene" /\ log[j].event = "scene"
          /\ AttemptAt = {i, j}

(***************************************************************************)
(* C15.  Interval captures ignore the cooldown: at every frame after the   *)
(* first whose cursor is a multiple of interval_seconds * fps, a capture   *)
(* is attempted; when the scene-change branch does not fire it is the      *)
(* interval branch that captures, whatever cursor - last_captured is,      *)
(* also right after a capture on the preceding frame.                      *)
(***************************************************************************)
SceneFiresAt(i) ==
    /\ log[i].changed
    /\ log[i].cursor - LastCapturedBefore(i) > video.fps * 5

C15_IntervalIgnoresCooldown ==
    SceneRun =>
        \A i \in DOMAIN log :
            (/\ log[i].event \in Evaluated
             /\ log[i].cursor >= 1
             /\ log[i].cursor % (interval_seconds * video.fps) = 0)
            => /\ log[i].event \in Attempts
               /\ log[i].write # "none"
               /\ ~SceneFiresAt(i) => log[i].event = "interval"
               /\ SceneFiresAt(i) => log[i].event = "scene"

\* an interval capture on the frame right after a captured frame
C15_Witness ==
    /\ SceneRun
    /\ \E i \in DOMAIN log :
          /\ i > 1
          /\ log[i].event = "interval"
          /\ log[i - 1].event \in Attempts
          /\ log[i].cursor = log[i - 1].cursor + 1
          /\ log[i].cursor - LastCapturedBefore(i) = 1

(***************************************************************************)
(* Two runs over the same frame stream with the same interval_seconds,     *)
(* scene_threshold and fps: the first is in previous, the second has just  *)
(* returned, and in both every frame of the stream was read and            *)
(* converted.                                                              *)
(***************************************************************************)
FullScan(l) ==
    /\ Len(l) = video.total_frames
    /\ \A i \in DOMAIN l : l[i].event \in Evaluated

IsAttempt(r) == r.event \in Attempts

\* the capture attempts of a history, in order
Captures(l) == SelectSeq(l, IsAttempt)

\* files written before the m-th capture attempt
OkBefore(c, m) == Cardinality({j \in 1..(m - 1) : c[j].write = "ok"})

\* the path the m-th capture was written to, its write having succeeded:
\* c the captures of a run, fs the paths the run wrote
WrittenName(c, fs, m) == fs[OkBefore(c, m) + 1]

TwoRuns ==
    /\ SceneRun /\ pc = "done"
    /\ previous # NoRun
    /\ FullScan(previous[1]) /\ FullScan(log)

\* the captures written in both runs
WrittenInBoth(a, b) ==
    {m \in DOMAIN a \cap DOMAIN b : a[m].write = "ok" /\ b[m].write = "ok"}

(***************************************************************************)
(* C16.  Stated: two scene-driven runs over the same frame stream with     *)
(* the same interval_seconds, scene_threshold and fps give their captures  *)
(* the same file names in the same order, whatever the outcome of the      *)
(* individual writes in each run.                                          *)
(***************************************************************************)
C16_SameNamesWhateverWrites ==
    TwoRuns =>
        LET a == Captures(previous[1])
            b == Captures(log)
        IN  /\ Len(a) = Len(b)
            /\ \A m \in WrittenInBoth(a, b) :
                  WrittenName(a, previous[2], m) = WrittenName(b, files, m)

(***************************************************************************)
(* C16, amended.  Two such runs attempt their captures at the same frames  *)
(* by the same branches, whatever the outcome of the writes; a capture     *)
(* written in both runs has the same file name in both exactly when the    *)
(* same number of writes succeeded before it in both, because the          *)
(* sequence number in the name counts the files written.  So the runs      *)
(* write the same names in the same order when their writes have the same  *)
(* outcomes, and after a write that failed in one run only, the later      *)
(* captures have different names.                                          *)
(***************************************************************************)
C16_NamesFollowWrites ==
    TwoRuns =>
        LET a == Captures(previous[1])
            b == Captures(log)
        IN  /\ Len(a) = Len(b)
            /\ \A m \in DOMAIN a :
                  /\ a[m].cursor = b[m].cursor
                  /\ a[m].event = b[m].event
            /\ \A m \in WrittenInBoth(a, b) :
                  (WrittenName(a, previous[2], m) = WrittenName(b, files, m))
                      <=> (OkBefore(a, m) = OkBefore(b, m))
            /\ (\A m \in DOMAIN a : (a[m].write = "ok") <=> (b[m].write = "ok"))
                  => previous[2] = files

\* the first write failed in the first run only: the second capture is
\* screenshot_000 in the first run and screenshot_001 in the second
C16_Witness ==
    /\ TwoRuns
    /\ LET a == Captures(previous[1])
           b == Captures(log)
       IN  /\ Len(a) >= 2 /\ Len(b) = Len(a)
           /\ a[1].write # "ok" /\ b[1].write = "ok"
           /\ a[2].write = "ok" /\ b[2].write = "ok"
           /\ previous[2][1] # files[2]
           /\ previous[2][1] # files[1]

(***************************************************************************)
(* C17.  The first frame processed only seeds the history: whatever the    *)
(* stream, threshold, interval and fps, no capture is attempted at cursor  *)
(* 0, although 0 is a multiple of interval_seconds * fps; once that frame  *)
(* is processed, prev_frame holds its grayscale, the cursor is 1, no file  *)
(* was written and last_captured is still the initial sentinel.            *)
(***************************************************************************)
EvaluatedAt == {i \in DOMAIN log : log[i].event \in Evaluated}

\* the grayscale images the frame at stream position p may have
GraysAt(p) == {cvtColor(f) : f \in video.frames[p + 1]}

C17_FirstFrameSeeds ==
    SceneRun =>
        LET seen == EvaluatedAt
        IN  /\ \A i \in seen :
                  log[i].cursor = 0 =>
                      /\ log[i].event = "none" /\ log[i].write = "none"
                      /\ ~log[i].changed
                      /\ \A j \in seen : j >= i
            /\ seen = {} => (prev_frame = None /\ frame_count = 0 /\ files = <<>>)
            /\ Cardinality(seen) = 1 =>
                  LET i == CHOOSE j \in seen : TRUE
                  IN  /\ log[i].cursor = 0
                      /\ frame_count = 1
                      /\ prev_frame \in GraysAt(log[i].pos)
                      /\ files = <<>> /\ screenshots_taken = 0
                      /\ last_captured = -(interval_seconds * video.fps)

\* the first frame read failed to convert; the second was the first processed
C17_Witness ==
    /\ SceneRun /\ pc = "loop"
    /\ Len(log) = 2
    /\ log[1].event = "convert_failed"
    /\ log[2].event = "none" /\ log[2].cursor = 0
    /\ frame_count = 1 /\ prev_frame # None

(***************************************************************************)
(* C18.  Cursor tracks the stream position: every frame read, on every     *)
(* path through the loop body, a failed grayscale conversion included,     *)
(* advances the cursor by one, so whenever the decision rule runs,         *)
(* frame_count is the number of frames read before the current one and     *)
(* 0 <= frame_count < total_frames.                                        *)
(***************************************************************************)
C18_CursorIsPosition ==
    SceneRun =>
        /\ pc = "loop" => frame_count = pos
        /\ \A i \in EvaluatedAt :
              /\ log[i].cursor = log[i].pos
              /\ 0 <= log[i].cursor /\ log[i].cursor < video.total_frames

(***************************************************************************)
(* C19.  Stated: before any capture has been attempted, the cooldown       *)
(* condition cursor - last_captured > fps*5 holds at every frame after     *)
(* the first, for every interval_seconds >= 1 and fps >= 1, so the first   *)
(* above-threshold difference of a stream is always captured by the        *)
(* scene-change branch.                                                    *)
(***************************************************************************)
\* frames after the first, evaluated before any capture was attempted
BeforeAnyAttempt ==
    {i \in EvaluatedAt : log[i].cursor >= 1 /\ \A j \in AttemptAt : j >= i}

C19_SentinelAlwaysCool ==
    SceneRun =>
        \A i \in BeforeAnyAttempt :
            /\ log[i].cursor - LastCapturedBefore(i) > video.fps * 5
            /\ log[i].changed => log[i].event = "scene"

(***************************************************************************)
(* C19, amended.  The initial last_captured is -interval_seconds * fps.    *)
(* Before any capture has been attempted, the cooldown condition holds at  *)
(* a frame after the first exactly when cursor > (5 - interval_seconds) *  *)
(* fps: at every such frame when interval_seconds >= 5, and only from      *)
(* cursor (5 - interval_seconds) * fps + 1 on when interval_seconds < 5.   *)
(* An above-threshold difference at a frame where it holds is captured by  *)
(* the scene-change branch; at an earlier frame it is not (the frame is    *)
(* captured by the interval branch if its cursor is a multiple of          *)
(* interval_seconds * fps, and not at all otherwise).                      *)
(***************************************************************************)
C19_SentinelCooldown ==
    SceneRun =>
        /\ (pc = "loop" /\ AttemptAt = {}) =>
              last_captured = -(interval_seconds * video.fps)
        /\ \A i \in BeforeAnyAttempt :
              LET cool == log[i].cursor > (5 - interval_seconds) * video.fps
              IN  /\ interval_seconds >= 5 => cool
                  /\ (log[i].changed /\ cool) => log[i].event = "scene"
                  /\ ~cool => log[i].event # "scene"
                  /\ (log[i].changed /\ ~cool) =>
                        (log[i].event = "interval"
                            <=> log[i].cursor % (interval_seconds * video.fps) = 0)

\* interval_seconds = 7: a difference at the second frame, taken by the
\* scene-change branch as the first capture of the run
C19_Witness ==
    /\ SceneRun /\ interval_seconds >= 5
    /\ \E i \in BeforeAnyAttempt :
          /\ log[i].cursor = 1
          /\ log[i].changed /\ log[i].event = "scene"

(***************************************************************************)
(* C20.  A capture attempt resets the cooldown whether or not the write    *)
(* succeeds: during and after the scan, last_captured is the cursor of     *)
(* the last frame for which the decision rule chose capture, also when     *)
(* its write failed (the initial sentinel if there was none), so a scene   *)
(* change within fps*5 frames of a failed write is not captured by the     *)
(* scene-change branch; last_captured never decreases and changes only     *)
(* at a frame chosen for capture.                                          *)
(***************************************************************************)
ScanBegun == pc = "loop" \/ log # <<>>

FailedAt == {i \in AttemptAt : log[i].write \in {"false", "error"}}

CooldownFollowsAttempts ==
    (SceneRun /\ ScanBegun) =>
        /\ last_captured = LastCapturedBefore(Len(log) + 1)
        /\ \A i \in AttemptAt : \A j \in AttemptAt : i < j => log[i].cursor < log[j].cursor
        /\ \A i \in FailedAt : \A j \in EvaluatedAt :
              (i < j /\ log[j].cursor - log[i].cursor <= video.fps * 5)
                  => log[j].event # "scene"

CooldownChangesAtAttempt ==
    (SceneRun /\ pc = "loop" /\ last_captured' # last_captured) =>
        /\ last_captured' = frame_count
        /\ last_captured' > last_captured
        /\ log'[Len(log')].event \in Attempts
        /\ log'[Len(log')].cursor = frame_count

C20_AttemptResetsCooldown == []CooldownFollowsAttempts /\ [][CooldownChangesAtAttempt]_vars

\* a failed write, then a scene change within the cooldown that is not taken
C20_Witness ==
    /\ SceneRun /\ pc = "loop"
    /\ files = <<>>
    /\ \E i \in FailedAt : \E j \in EvaluatedAt :
          /\ i < j /\ j = Len(log)
          /\ log[j].changed /\ log[j].event = "none"
          /\ log[j].cursor - log[i].cursor <= video.fps * 5
          /\ last_captured = log[i].cursor

====
